---- MODULE Spec2Model ----
(***************************************************************************)
(* Model of training_example.ipynb: the loop that assembles dataset_dict   *)
(* from the three CoNLL split files (cell 2), and the Corpus data provider *)
(* the notebook hands dataset_dict to (cell 3).                            *)
(***************************************************************************)
EXTENDS Integers, Sequences, FiniteSets, TLC

VARIABLES pc, di, files, dataset_dict, xy_list, tokens, tags, raised,
          corp, gen, batches

vars == <<pc, di, files, dataset_dict, xy_list, tokens, tags, raised,
          corp, gen, batches>>

loadVars == <<di, files, dataset_dict, xy_list, tokens, tags>>
corpVars == <<corp, gen, batches>>

(* Total number of lines the three files hold together. *)
MaxLines == 4

(***************************************************************************)
(* Text: a string is a sequence of one-character strings.                  *)
(***************************************************************************)
SP == <<" ">>
NL == <<"\n">>
Whitespace == {" ", "\t", "\n"}
Digits == {"0", "1", "2", "3", "4", "5", "6", "7", "8", "9"}

DOCSTART == <<"-", "D", "O", "C", "S", "T", "A", "R", "T", "-">>
PLACEHOLDER == <<"#">>

EU == <<"E", "U">>
rejects == <<"r", "e", "j", "e", "c", "t", "s">>
China == <<"C", "h", "i", "n", "a">>
Year == <<"2", "0", "1", "7">>
B_ORG == <<"B", "-", "O", "R", "G">>
B_LOC == <<"B", "-", "L", "O", "C">>
O == <<"O">>

data_types == <<"train", "test", "valid">>

(* The lines a split file is made of. *)
Lines ==
  { EU \o SP \o B_ORG \o NL,
    rejects \o SP \o O \o NL,
    China \o SP \o B_LOC \o NL,
    Year \o SP \o O \o NL,
    NL,
    DOCSTART \o SP \o O \o NL,
    EU \o NL,
    EU \o SP \o B_ORG \o SP \o O \o NL }

(* str.split(): the maximal runs of non-whitespace characters. *)
RECURSIVE splitFrom(_, _, _)
splitFrom(s, cur, acc) ==
  IF s = <<>>
  THEN IF cur = <<>> THEN acc ELSE Append(acc, cur)
  ELSE IF Head(s) \in Whitespace
       THEN splitFrom(Tail(s), <<>>, IF cur = <<>> THEN acc ELSE Append(acc, cur))
       ELSE splitFrom(Tail(s), Append(cur, Head(s)), acc)

split(line) == splitFrom(line, <<>>, <<>>)

(* sub in s *)
Contains(sub, s) ==
  \E i \in 1..(Len(s) - Len(sub) + 1) : SubSeq(s, i, i + Len(sub) - 1) = sub

isdigit(c) == c \in Digits

Normalize_Identity(token) == token

(* Lines 157-160: what is appended to tokens for an accepted token. *)
Normalize(token) == IF isdigit(token[1]) THEN PLACEHOLDER ELSE token

IsPairLine_NoMarkerTest(items) == Len(items) > 1

IsPairLine_ExactlyTwo(items) == Len(items) = 2 /\ ~Contains(DOCSTART, items[1])

(* Line 155: the line is taken as a token-tag line. *)
IsPairLine(items) == Len(items) > 1 /\ ~Contains(DOCSTART, items[1])

FlushGuard_Always(toks) == TRUE

(* Line 162: the condition of the elif branch. *)
FlushGuard(toks) == Len(toks) > 0

Store_Prepend(xy, toks, tgs) == << <<toks, tgs>> >> \o xy

(* Line 163: xy_list.append((tokens, tags,)) *)
Store(xy, toks, tgs) == Append(xy, <<toks, tgs>>)

FreshAccumulators_Kept(toks, tgs) == <<toks, tgs>>

(* Lines 150-152: the accumulators a file starts with. *)
FreshAccumulators(toks, tgs) == << <<>>, <<>> >>

(* dataset_dict[data_type] = xy_list *)
SetItem(dd, d, xy) ==
  [e \in DOMAIN dd \cup {d} |-> IF e = d THEN xy ELSE dd[e]]

AfterRaise_StorePartial(dd, d, xy) == SetItem(dd, d, xy)

(* Line 156 raises inside the with block of line 149: the exception leaves *)
(* the loops and line 166 is not reached.                                  *)
AfterRaise(dd, d, xy) == dd

(* Before cell 3 runs there is no Corpus and no batch generator. *)
NoCorpus == [token_vocab |-> <<>>, tag_vocab |-> <<>>]
NoGenerator == [dataset_type |-> "train", batch_size |-> 1, order |-> <<>>, k |-> 0]

NLinesRead == Len(files["train"]) + Len(files["test"]) + Len(files["valid"])

Init ==
  /\ pc = "for_data_type"
  /\ di = 1
  /\ files = [d \in {"train", "test", "valid"} |-> <<>>]
  /\ dataset_dict = [d \in {} |-> <<>>]
  /\ xy_list = <<>>
  /\ tokens = <<>>
  /\ tags = <<>>
  /\ raised = "none"
  /\ corp = NoCorpus
  /\ gen = NoGenerator
  /\ batches = <<>>

(* Lines 147-152: the next data type is taken and its file opened. *)
OpenFile ==
  /\ pc = "for_data_type"
  /\ di <= Len(data_types)
  /\ xy_list' = <<>>
  /\ tokens' = FreshAccumulators(tokens, tags)[1]
  /\ tags' = FreshAccumulators(tokens, tags)[2]
  /\ pc' = "for_line"
  /\ UNCHANGED <<di, files, dataset_dict, raised>>
  /\ UNCHANGED corpVars

(* Lines 153-165: one iteration of "for line in f". *)
ReadLine(line) ==
  /\ pc = "for_line"
  /\ NLinesRead < MaxLines
  /\ files' = [files EXCEPT ![data_types[di]] = Append(@, line)]
  /\ LET items == split(line) IN
       IF IsPairLine(items)
       THEN IF Len(items) = 2
            THEN /\ tokens' = Append(tokens, Normalize(items[1]))
                 /\ tags' = Append(tags, items[2])
                 /\ UNCHANGED <<xy_list, pc, raised, dataset_dict>>
            ELSE (* token, tag = items: too many values to unpack *)
                 /\ raised' = "ValueError"
                 /\ pc' = "error"
                 /\ dataset_dict' = AfterRaise(dataset_dict, data_types[di], xy_list)
                 /\ UNCHANGED <<xy_list, tokens, tags>>
       ELSE IF FlushGuard(tokens)
            THEN /\ xy_list' = Store(xy_list, tokens, tags)
                 /\ tokens' = <<>>
                 /\ tags' = <<>>
                 /\ UNCHANGED <<pc, raised, dataset_dict>>
            ELSE UNCHANGED <<xy_list, tokens, tags, pc, raised, dataset_dict>>
  /\ UNCHANGED di
  /\ UNCHANGED corpVars

(* Line 166, reached when the file is exhausted. *)
EndOfFile ==
  /\ pc = "for_line"
  /\ dataset_dict' = SetItem(dataset_dict, data_types[di], xy_list)
  /\ di' = di + 1
  /\ pc' = "for_data_type"
  /\ UNCHANGED <<files, xy_list, tokens, tags, raised>>
  /\ UNCHANGED corpVars

(* Line 147: data_types is exhausted. *)
LoopExit ==
  /\ pc = "for_data_type"
  /\ di > Len(data_types)
  /\ pc' = "loaded"
  /\ UNCHANGED <<raised>>
  /\ UNCHANGED loadVars
  /\ UNCHANGED corpVars

Next ==
  \/ OpenFile
  \/ \E line \in Lines : ReadLine(line)
  \/ EndOfFile
  \/ LoopExit

Spec == Init /\ [][Next]_vars

(***************************************************************************)
(* Corpus, the data provider of cell 3 (vocabularies, encoding, batches).  *)
(***************************************************************************)
(* Sentences in all three splits together, and the largest batch size. *)
MaxSentences == 3
MaxBatch == 3

PAD == <<"<PAD>">>
UNK == <<"<UNK>">>

(* A vocabulary is the sequence of its surface strings; the index of a     *)
(* string is its place in it, counted from 0.                              *)
RECURSIVE AddAll(_, _)
AddAll(vocab, items) ==
  IF items = <<>> THEN vocab
  ELSE AddAll(IF \E i \in 1..Len(vocab) : vocab[i] = Head(items)
              THEN vocab ELSE Append(vocab, Head(items)),
              Tail(items))

RECURSIVE AllTokens(_)
AllTokens(xy) == IF xy = <<>> THEN <<>> ELSE Head(xy)[1] \o AllTokens(Tail(xy))
RECURSIVE AllTags(_)
AllTags(xy) == IF xy = <<>> THEN <<>> ELSE Head(xy)[2] \o AllTags(Tail(xy))

TokenVocabulary(train) == AddAll(<<PAD, UNK>>, AllTokens(train))
TagVocabulary(train) == AddAll(<<PAD>>, AllTags(train))

InVocab(vocab, str) == \E i \in 1..Len(vocab) : vocab[i] = str
IndexOf(vocab, str) == (CHOOSE i \in 1..Len(vocab) : vocab[i] = str) - 1

PAD_IDX == 0
UNK_IDX == 1

encode_token(vocab, token) ==
  IF InVocab(vocab, token) THEN IndexOf(vocab, token) ELSE UNK_IDX

encode_tag_Lenient(vocab, tag) ==
  IF InVocab(vocab, tag) THEN {IndexOf(vocab, tag)} ELSE {PAD_IDX}

(* The set holding the index of the tag; empty when the tag has none and   *)
(* UnknownTagError is raised instead.                                      *)
encode_tag(vocab, tag) ==
  IF InVocab(vocab, tag) THEN {IndexOf(vocab, tag)} ELSE {}

Pad(idxs, width) == idxs \o [i \in 1..(width - Len(idxs)) |-> PAD_IDX]

Max(S) == CHOOSE m \in S : \A x \in S : x <= m

n_batches_DropLast(n, b) == n \div b

(* ceil(n / b) *)
n_batches(n, b) == (n + b - 1) \div b

Orders(n, shuffle) ==
  IF shuffle
  THEN {p \in [1..n -> 1..n] : \A i, j \in 1..n : p[i] = p[j] => i = j}
  ELSE {[i \in 1..n |-> i]}

(* The k-th group (k from 0) of the pass: the places in the split of its   *)
(* sentences.                                                              *)
Group(g, n) ==
  SubSeq(g.order, g.k * g.batch_size + 1,
         IF (g.k + 1) * g.batch_size < n THEN (g.k + 1) * g.batch_size ELSE n)

EncodeBatch(c, sents, group) ==
  LET width == Max({Len(sents[group[i]][1]) : i \in 1..Len(group)})
  IN [samples |-> group,
      tokens |-> [i \in 1..Len(group) |->
                    Pad([j \in 1..Len(sents[group[i]][1]) |->
                           encode_token(c.token_vocab, sents[group[i]][1][j])], width)],
      tags |-> [i \in 1..Len(group) |->
                    Pad([j \in 1..Len(sents[group[i]][2]) |->
                           CHOOSE x \in encode_tag(c.tag_vocab, sents[group[i]][2][j]) : TRUE],
                        width)],
      lengths |-> [i \in 1..Len(group) |-> Len(sents[group[i]][1])]]

RaisesUnknownTag(c, sents, group) ==
  \E i \in 1..Len(group) : \E j \in 1..Len(sents[group[i]][2]) :
     encode_tag(c.tag_vocab, sents[group[i]][2][j]) = {}

(* The Sentences the splits are made of, and the file a list of Sentences  *)
(* is loaded from.                                                         *)
SentencePool ==
  { << <<EU, rejects>>, <<B_ORG, O>> >>,
    << <<China>>, <<B_LOC>> >>,
    << <<PLACEHOLDER>>, <<O>> >> }

RECURSIVE SeqsUpTo(_, _)
SeqsUpTo(S, n) ==
  IF n = 0 THEN {<<>>}
  ELSE LET shorter == SeqsUpTo(S, n - 1)
       IN shorter \cup {Append(s, x) : s \in shorter, x \in S}

RECURSIVE FileOf(_)
FileOf(xy) ==
  IF xy = <<>> THEN <<>>
  ELSE [i \in 1..Len(Head(xy)[1]) |-> Head(xy)[1][i] \o SP \o Head(xy)[2][i] \o NL]
       \o <<NL>> \o FileOf(Tail(xy))

(* The state the loading loop leaves: dataset_dict filled for the three    *)
(* splits from their files.                                                *)
InitCorpus ==
  /\ pc = "loaded"
  /\ di = Len(data_types) + 1
  /\ dataset_dict \in [{"train", "test", "valid"} -> SeqsUpTo(SentencePool, MaxSentences)]
  /\ Len(dataset_dict["train"]) + Len(dataset_dict["test"]) + Len(dataset_dict["valid"])
       <= MaxSentences
  /\ files = [d \in {"train", "test", "valid"} |-> FileOf(dataset_dict[d])]
  /\ xy_list = dataset_dict["valid"]
  /\ tokens = <<>>
  /\ tags = <<>>
  /\ raised = "none"
  /\ corp = NoCorpus
  /\ gen = NoGenerator
  /\ batches = <<>>

(* Corpus(dataset_dict, embeddings_file_path=None): the vocabularies are   *)
(* built from the train split.                                             *)
BuildCorpus ==
  /\ pc = "loaded"
  /\ corp' = [token_vocab |-> TokenVocabulary(dataset_dict["train"]),
              tag_vocab |-> TagVocabulary(dataset_dict["train"])]
  /\ pc' = "ready"
  /\ UNCHANGED <<raised, gen, batches>>
  /\ UNCHANGED loadVars

(* A pass over a split is asked for. *)
StartPass(d, b, shuffle) ==
  /\ pc = "ready"
  /\ IF dataset_dict[d] = <<>>
     THEN /\ raised' = "EmptySplitError"
          /\ pc' = "error"
          /\ UNCHANGED <<gen, batches>>
     ELSE /\ \E p \in Orders(Len(dataset_dict[d]), shuffle) :
               gen' = [dataset_type |-> d, batch_size |-> b, order |-> p, k |-> 0]
          /\ batches' = <<>>
          /\ pc' = "batching"
          /\ UNCHANGED raised
  /\ UNCHANGED corp
  /\ UNCHANGED loadVars

(* The generator is asked for its next batch. *)
NextBatch ==
  /\ pc = "batching"
  /\ LET sents == dataset_dict[gen.dataset_type]
         n == Len(sents)
     IN /\ gen.k < n_batches(n, gen.batch_size)
        /\ LET batch == EncodeBatch(corp, sents, Group(gen, n))
           IN IF RaisesUnknownTag(corp, sents, Group(gen, n))
              THEN /\ raised' = "UnknownTagError"
                   /\ pc' = "error"
                   /\ UNCHANGED <<gen, batches>>
              ELSE /\ batches' = Append(batches, batch)
                   /\ gen' = [gen EXCEPT !.k = @ + 1]
                   /\ UNCHANGED <<pc, raised>>
  /\ UNCHANGED corp
  /\ UNCHANGED loadVars

(* The generator is exhausted: the pass is over. *)
EndPass ==
  /\ pc = "batching"
  /\ gen.k >= n_batches(Len(dataset_dict[gen.dataset_type]), gen.batch_size)
  /\ pc' = "ready"
  /\ UNCHANGED <<raised, corp, gen, batches>>
  /\ UNCHANGED loadVars

NextCorpus ==
  \/ BuildCorpus
  \/ \E d \in {"train", "test", "valid"}, b \in 1..MaxBatch, shuffle \in BOOLEAN :
        StartPass(d, b, shuffle)
  \/ NextBatch
  \/ EndPass

SpecCorpus == InitCorpus /\ [][NextCorpus]_vars

(***************************************************************************)
(* Vocabulary of the properties of the loading loop.                       *)
(***************************************************************************)
Splits == {"train", "test", "valid"}

FieldsOf == [line \in Lines |-> split(line)]
Fields(line) == FieldsOf[line]
IsBlankLine(line) == Fields(line) = <<>>
IsMarkerLine(line) == Len(Fields(line)) >= 1 /\ Contains(DOCSTART, Fields(line)[1])
IsTokenTagLine(line) == Len(Fields(line)) = 2 /\ ~IsMarkerLine(line)
IsSingleFieldLine(line) == Len(Fields(line)) = 1 /\ ~IsMarkerLine(line)
IsLongLine(line) == Len(Fields(line)) >= 3 /\ ~IsMarkerLine(line)
IsMalformedLine(line) == IsSingleFieldLine(line) \/ IsLongLine(line)

(* The token and the tag a token-tag line is expected to store. *)
ExpectedToken(line) ==
  IF Fields(line)[1][1] \in Digits THEN <<"#">> ELSE Fields(line)[1]
ExpectedTag(line) == Fields(line)[2]

Last(s) == s[Len(s)]
IsPrefix(s, t) == Len(s) <= Len(t) /\ SubSeq(t, 1, Len(s)) = s

RECURSIVE FlatTokens(_)
FlatTokens(xy) == IF xy = <<>> THEN <<>> ELSE Head(xy)[1] \o FlatTokens(Tail(xy))
RECURSIVE FlatTags(_)
FlatTags(xy) == IF xy = <<>> THEN <<>> ELSE Head(xy)[2] \o FlatTags(Tail(xy))

TokenTagLines(lines) == SelectSeq(lines, IsTokenTagLine)
ExpectedTokens(lines) ==
  [i \in 1..Len(TokenTagLines(lines)) |-> ExpectedToken(TokenTagLines(lines)[i])]
ExpectedTags(lines) ==
  [i \in 1..Len(TokenTagLines(lines)) |-> ExpectedTag(TokenTagLines(lines)[i])]

(* One Sentence per maximal run of consecutive token-tag lines; atEnd says *)
(* whether the run the input ends in counts.                               *)
RECURSIVE RunsFrom(_, _, _, _)
RunsFrom(lines, cur, acc, atEnd) ==
  IF lines = <<>>
  THEN IF atEnd /\ cur[1] # <<>> THEN Append(acc, cur) ELSE acc
  ELSE IF IsTokenTagLine(Head(lines))
       THEN RunsFrom(Tail(lines),
                     <<Append(cur[1], ExpectedToken(Head(lines))),
                       Append(cur[2], ExpectedTag(Head(lines)))>>, acc, atEnd)
       ELSE RunsFrom(Tail(lines), << <<>>, <<>> >>,
                     IF cur[1] # <<>> THEN Append(acc, cur) ELSE acc, atEnd)

MaximalRuns(lines) == RunsFrom(lines, << <<>>, <<>> >>, <<>>, TRUE)
ClosedRuns(lines) == RunsFrom(lines, << <<>>, <<>> >>, <<>>, FALSE)

Parsing == pc = "for_line"
CurrentFile == files[data_types[di]]

ExampleFile ==
  << EU \o SP \o B_ORG \o NL, rejects \o SP \o O \o NL, NL, China \o SP \o B_LOC \o NL >>
ExampleSentences ==
  << << <<EU, rejects>>, <<B_ORG, O>> >>, << <<China>>, <<B_LOC>> >> >>

(* C1: the list stored for a split holds one Sentence, in file order, for  *)
(* every maximal run of consecutive token-tag lines of the split's file,   *)
(* the run the file ends in included; the example file of the notebook     *)
(* gives the two Sentences (EU rejects) and (China).                       *)
C1_EveryRunStored ==
  \A d \in DOMAIN dataset_dict :
     /\ dataset_dict[d] = MaximalRuns(files[d])
     /\ files[d] = ExampleFile => dataset_dict[d] = ExampleSentences

(* C2 as stated: when a marker line sits between two token-tag lines, the  *)
(* tokens before and after it are in the same Sentence.                    *)
C2_MarkerKeepsSentenceOpen ==
  Parsing =>
    LET fl == CurrentFile
        n == Len(fl)
    IN (n >= 3 /\ IsTokenTagLine(fl[n-2]) /\ IsMarkerLine(fl[n-1]) /\ IsTokenTagLine(fl[n]))
         => /\ Len(tokens) >= 2
            /\ tokens[Len(tokens) - 1] = ExpectedToken(fl[n-2])
            /\ tokens[Len(tokens)] = ExpectedToken(fl[n])

(* C2 amended: a marker line adds no token and no tag and closes the       *)
(* pending Sentence the way a blank line does: after it nothing is         *)
(* pending, the token-tag line before it ends the last stored Sentence and *)
(* the token-tag line after it starts a new one.                           *)
C2_MarkerEndsSentence ==
  Parsing =>
    LET fl == CurrentFile
        n == Len(fl)
    IN /\ (n >= 1 /\ IsMarkerLine(fl[n])) => (tokens = <<>> /\ tags = <<>>)
       /\ (n >= 2 /\ IsTokenTagLine(fl[n-1]) /\ IsMarkerLine(fl[n]))
            => /\ xy_list # <<>>
               /\ Last(Last(xy_list)[1]) = ExpectedToken(fl[n-1])
               /\ Last(Last(xy_list)[2]) = ExpectedTag(fl[n-1])
       /\ (n >= 2 /\ IsMarkerLine(fl[n-1]) /\ IsTokenTagLine(fl[n]))
            => /\ tokens = <<ExpectedToken(fl[n])>>
               /\ tags = <<ExpectedTag(fl[n])>>
       /\ FlatTokens(xy_list) \o tokens = ExpectedTokens(fl)
       /\ FlatTags(xy_list) \o tags = ExpectedTags(fl)

C2_Witness ==
  /\ Parsing
  /\ Len(CurrentFile) = 3
  /\ IsTokenTagLine(CurrentFile[1])
  /\ IsMarkerLine(CurrentFile[2])
  /\ IsTokenTagLine(CurrentFile[3])
  /\ Len(xy_list) = 1
  /\ Len(tokens) = 1

(* C3: every Sentence stored, in the list being built and in the lists     *)
(* already put in dataset_dict, has as many tokens as tags and at least    *)
(* one token.                                                              *)
WellFormed(sentence) == Len(sentence[1]) = Len(sentence[2]) /\ Len(sentence[1]) > 0

C3_NoEmptySentence ==
  /\ \A i \in 1..Len(xy_list) : WellFormed(xy_list[i])
  /\ \A d \in DOMAIN dataset_dict :
       \A i \in 1..Len(dataset_dict[d]) : WellFormed(dataset_dict[d][i])

C3_Witness ==
  /\ Parsing
  /\ Len(CurrentFile) = 4
  /\ IsBlankLine(CurrentFile[1])
  /\ IsTokenTagLine(CurrentFile[2])
  /\ IsMarkerLine(CurrentFile[3])
  /\ IsBlankLine(CurrentFile[4])
  /\ Len(xy_list) = 1

(* C4 as stated: every malformed line (one field, or three or more) that   *)
(* has been read has made the load fail.                                   *)
C4_MalformedLineFails ==
  \A d \in Splits : \A i \in 1..Len(files[d]) :
     IsMalformedLine(files[d][i]) => (pc = "error" /\ raised = "ValueError")

(* C4 amended: the load fails (ValueError of the unpacking) exactly on a   *)
(* non-marker line of three or more fields, which is the last line read,   *)
(* stores no token and closes no Sentence; a non-marker line of a single   *)
(* field raises nothing, stores no token and closes the pending Sentence   *)
(* like a blank line.                                                      *)
C4_OnlyLongLineFails ==
  /\ (raised = "ValueError") <=> (\E d \in Splits : \E i \in 1..Len(files[d]) : IsLongLine(files[d][i]))
  /\ \A d \in Splits : \A i \in 1..Len(files[d]) :
        IsLongLine(files[d][i]) => (pc = "error" /\ d = data_types[di] /\ i = Len(files[d]))
  /\ pc \in {"for_line", "error"} =>
        LET fl == CurrentFile
            n == Len(fl)
        IN /\ FlatTokens(xy_list) \o tokens = ExpectedTokens(fl)
           /\ FlatTags(xy_list) \o tags = ExpectedTags(fl)
           /\ (n >= 1 /\ IsSingleFieldLine(fl[n])) => (pc = "for_line" /\ tokens = <<>> /\ tags = <<>>)
           /\ (n >= 2 /\ IsTokenTagLine(fl[n-1]) /\ IsSingleFieldLine(fl[n]))
                => (xy_list # <<>> /\ Last(Last(xy_list)[1]) = ExpectedToken(fl[n-1]))
           /\ (n >= 2 /\ IsTokenTagLine(fl[n-1]) /\ IsLongLine(fl[n]))
                => (tokens # <<>> /\ Last(tokens) = ExpectedToken(fl[n-1]))

C4_Witness ==
  /\ pc = "error"
  /\ Len(CurrentFile) = 4
  /\ IsTokenTagLine(CurrentFile[1])
  /\ IsSingleFieldLine(CurrentFile[2])
  /\ IsTokenTagLine(CurrentFile[3])
  /\ IsLongLine(CurrentFile[4])
  /\ Len(xy_list) = 1
  /\ Len(tokens) = 1

(* C5: once a malformed line has made the load of a split fail,            *)
(* dataset_dict holds the splits loaded before it, each with the list its  *)
(* own file gave, and no entry for the failed split or a later one; no     *)
(* line of a later split has been read.                                    *)
C5_FailedSplitNotStored ==
  raised = "ValueError" =>
    /\ pc = "error"
    /\ DOMAIN dataset_dict = {data_types[j] : j \in 1..(di - 1)}
    /\ \A d \in DOMAIN dataset_dict : dataset_dict[d] = ClosedRuns(files[d])
    /\ \A j \in (di + 1)..Len(data_types) : files[data_types[j]] = <<>>

C5_Witness ==
  /\ raised = "ValueError"
  /\ di = 2
  /\ xy_list # <<>>
  /\ "train" \in DOMAIN dataset_dict

(* C6: the tokens stored for a file are, in order, those of its token-tag  *)
(* lines with '#' in place of every token that starts with a digit, the    *)
(* tags are those of the lines unchanged, and normalizing a stored token   *)
(* again returns it unchanged.                                             *)
C6_Normalized ==
  pc \in {"for_line", "error"} =>
    /\ FlatTokens(xy_list) \o tokens = ExpectedTokens(CurrentFile)
    /\ FlatTags(xy_list) \o tags = ExpectedTags(CurrentFile)
    /\ \A i \in 1..Len(tokens) : Normalize(tokens[i]) = tokens[i]
    /\ \A i \in 1..Len(xy_list) : \A j \in 1..Len(xy_list[i][1]) :
          Normalize(xy_list[i][1][j]) = xy_list[i][1][j]

C6_Witness ==
  /\ Parsing
  /\ tokens = <<PLACEHOLDER, EU>>
  /\ tags = <<O, B_ORG>>

(* C9: every list in dataset_dict is what the lines of the split's own     *)
(* file give, a run of token-tag lines the file ends in being dropped and  *)
(* never carried into a later split; after the loop the keys are train,    *)
(* test and valid.                                                         *)
C9_OwnFileOnly ==
  /\ \A d \in DOMAIN dataset_dict : dataset_dict[d] = ClosedRuns(files[d])
  /\ pc = "loaded" => DOMAIN dataset_dict = {"train", "test", "valid"}

C9_Witness ==
  /\ pc = "loaded"
  /\ files["train"] # <<>>
  /\ IsTokenTagLine(Last(files["train"]))
  /\ dataset_dict["test"] # <<>>

(* C10: a step of the parse of a file leaves the Sentences already in      *)
(* xy_list as they are and in place, adding at most at the end, and the    *)
(* tags of the stored Sentences are a prefix of the tags of the file's     *)
(* token-tag lines.                                                        *)
C10_AppendOnly ==
  [][Parsing => /\ IsPrefix(xy_list, xy_list')
                /\ IsPrefix(FlatTags(xy_list'), ExpectedTags(files'[data_types[di]]))]_vars

C10_Witness ==
  /\ Parsing
  /\ Len(xy_list) = 2
  /\ xy_list[1] # xy_list[2]
(***************************************************************************)
(* Properties of the Corpus.                                               *)
(***************************************************************************)
Ceil(n, b) == CHOOSE c \in 0..n : c * b >= n /\ (c - 1) * b < n

PassSplit == dataset_dict[gen.dataset_type]

(* The rows (batch, place in the batch) that hold sentence i of the split. *)
RowsOf(i) ==
  {jp \in (1..Len(batches)) \X (1..gen.batch_size) :
     /\ jp[2] <= Len(batches[jp[1]].samples)
     /\ batches[jp[1]].samples[jp[2]] = i}

(* C7: a finished pass over a split of n sentences with batch size b has   *)
(* yielded ceil(n/b) batches of at most b sentences, and every sentence of *)
(* the split is in exactly one row of exactly one batch, with its length.  *)
C7_BatchCoverage ==
  (pc = "ready" /\ gen.order # <<>>) =>
    LET n == Len(PassSplit)
    IN /\ Len(batches) = Ceil(n, gen.batch_size)
       /\ \A j \in 1..Len(batches) : Len(batches[j].samples) \in 1..gen.batch_size
       /\ \A i \in 1..n :
            /\ Cardinality(RowsOf(i)) = 1
            /\ \A jp \in RowsOf(i) :
                 batches[jp[1]].lengths[jp[2]] = Len(PassSplit[i][1])

C7_Witness ==
  /\ pc = "ready"
  /\ Len(PassSplit) = 3
  /\ gen.batch_size = 2
  /\ gen.order = <<3, 1, 2>>
  /\ Len(batches) = 2

(* C8: in every batch yielded, a token of the vocabulary has its index and *)
(* any other token the unknown index, and every tag is a tag of the        *)
(* vocabulary with its index; UnknownTagError is raised exactly for a      *)
(* group holding a tag outside the vocabulary, and no batch is yielded for *)
(* that group.                                                             *)
KnownTags(sentence) ==
  \A q \in 1..Len(sentence[2]) : InVocab(corp.tag_vocab, sentence[2][q])

C8_LenientTokensStrictTags ==
  /\ \A j \in 1..Len(batches) : \A p \in 1..Len(batches[j].samples) :
       LET sentence == PassSplit[batches[j].samples[p]]
       IN \A q \in 1..Len(sentence[1]) :
            /\ batches[j].tokens[p][q] =
                 IF InVocab(corp.token_vocab, sentence[1][q])
                 THEN IndexOf(corp.token_vocab, sentence[1][q]) ELSE UNK_IDX
            /\ InVocab(corp.tag_vocab, sentence[2][q])
            /\ batches[j].tags[p][q] = IndexOf(corp.tag_vocab, sentence[2][q])
  /\ raised = "UnknownTagError" =>
       /\ pc = "error"
       /\ Len(batches) = gen.k
       /\ \E p \in 1..Len(Group(gen, Len(PassSplit))) :
            ~KnownTags(PassSplit[Group(gen, Len(PassSplit))[p]])
  /\ (pc = "ready" /\ gen.order # <<>>) =>
       \A i \in 1..Len(PassSplit) : KnownTags(PassSplit[i])

C8_Witness ==
  /\ raised = "UnknownTagError"
  /\ Len(batches) = 1
  /\ batches[1].tokens[1][1] = UNK_IDX
  /\ batches[1].tags[1][1] # PAD_IDX
====
